---- MODULE Spec2Model ----
(***************************************************************************)
(* Blogicum: posts under categories and locations, comments, profiles.     *)
(* The state is the content of the database tables plus the clock that     *)
(* timezone.now() reads; one action per request handler that writes a row  *)
(* (blog/views.py), per admin operation that the views depend on           *)
(* (blog/admin.py) and for the passing of time.  The handlers that only    *)
(* read (the three listings and the post detail page) and the response of  *)
(* every handler are operators over the state, evaluated for every         *)
(* request in every reachable state.                                       *)
(***************************************************************************)
EXTENDS Integers, FiniteSets, Sequences, TLC

\* ---------------------------------------------------------------- bounds
MaxPosts == 1
MaxComments == 2
MaxCategories == 1
MaxLocations == 1
MaxTime == 1

\* ------------------------------------------------------------- constants
\* null=True foreign keys hold NULL; row ids start at 1.
Null == 0
\* registered accounts (settings.AUTH_USER_MODEL) and the anonymous visitor
Users == {"u1", "u2"}
Anonymous == "anon"
Slugs == {"s1", "s2"}
Texts == {"a", "b"}
Times == 0..MaxTime
PostIds == 1..MaxPosts
CommentIds == 1..MaxComments
CategoryIds == 1..MaxCategories
LocationIds == 1..MaxLocations

VARIABLES
    users,          \* existing accounts
    categories,     \* id -> [slug, is_published]
    locations,      \* ids of the existing locations
    posts,          \* id -> [author, pub_date, is_published, category, location]
    comments,       \* id -> [author, post, text]
    nextId,         \* table -> next auto-increment id
    now             \* timezone.now()

vars == <<users, categories, locations, posts, comments, nextId, now>>
db == <<users, categories, locations, posts, comments, nextId>>

\* ------------------------------------------------------------- responses
\* What a handler answers is a function of the request, the tables and the
\* clock: an operator beside the action that gives the handler's writes.
Http404 == [status |-> 404]
redirect(name, arg) == [status |-> 302, url |-> name, arg |-> <<arg>>]
RedirectToLogin == [status |-> 302, url |-> "login"]

\* the users a request can come from: a logged-in account or nobody
Requesters == users \cup {Anonymous}

Drop(f, k) == [x \in DOMAIN f \ {k} |-> f[x]]

Init ==
    /\ users = Users
    /\ categories = <<>>
    /\ locations = {}
    /\ posts = <<>>
    /\ comments = <<>>
    /\ nextId = [post |-> 1, comment |-> 1, category |-> 1, location |-> 1]
    /\ now = 0

\* ------------------------------------------------- queries (blog/views.py)
\* slip: pub_date__lt for pub_date__lte
published_filter_lt(id) ==
    /\ posts[id].pub_date < now
    /\ posts[id].is_published
    /\ \E c \in DOMAIN categories :
          c = posts[id].category /\ categories[c].is_published

\* Post.objects.filter(pub_date__lte=now, is_published=True,
\* category__is_published=True): the last condition joins the category
\* table, so a row with a NULL category joins nothing and is filtered out.
published_filter(id) ==
    /\ posts[id].pub_date <= now
    /\ posts[id].is_published
    /\ \E c \in DOMAIN categories :
          c = posts[id].category /\ categories[c].is_published

\* The rows of the queryset.  annotate(comment_count) and
\* order_by('-pub_date') add a column and an order, never a row.
get_posts_queryset(published) ==
    IF published
    THEN {id \in DOMAIN posts : published_filter(id)}
    ELSE DOMAIN posts

\* slip: the test only asks for a logged-in user
test_func_logged_in(object, user) == user # Anonymous

\* OnlyAuthorMixin.test_func: object.author == request.user
test_func(object, user) == object.author = user

\* OnlyAuthorMixin.handle_no_permission:
\* redirect('blog:post_detail', self.get_object().pk)
handle_no_permission(pk) == redirect("post_detail", pk)

\* HomePageListView.get_queryset
HomePageListView == get_posts_queryset(TRUE)

\* slip: no is_published=True in the lookup
get_category_object_any(slug) ==
    {c \in DOMAIN categories : categories[c].slug = slug}

\* CategoryPostsListView: get_object_or_404(Category, is_published=True,
\* slug=...), then the published posts of that category.
get_category_object(slug) ==
    {c \in DOMAIN categories :
        categories[c].is_published /\ categories[c].slug = slug}

CategoryPostsListView(slug) ==
    IF get_category_object(slug) = {}
    THEN [status |-> 404, object_list |-> {}]
    ELSE [status |-> 200,
          object_list |-> {id \in get_posts_queryset(TRUE) :
                              posts[id].category \in get_category_object(slug)}]

\* slip: == for != in the published argument
UserListView_swapped(user, username) ==
    IF username \notin users
    THEN [status |-> 404, object_list |-> {}]
    ELSE [status |-> 200,
          object_list |-> {id \in get_posts_queryset(user = username) :
                              posts[id].author = username}]

\* UserListView: get_object_or_404(User, username=...), then
\* get_posts_queryset(published = request.user != profile).filter(author=profile)
UserListView(user, username) ==
    IF username \notin users
    THEN [status |-> 404, object_list |-> {}]
    ELSE [status |-> 200,
          object_list |-> {id \in get_posts_queryset(user # username) :
                              posts[id].author = username}]

\* PostDetailView.get_object.  The condition is evaluated left to right and
\* stops at the first true disjunct; post.category.is_published on a post
\* whose category is None raises AttributeError, which the framework
\* answers with a server error (500).
PostDetailView(user, post_id) ==
    IF post_id \notin DOMAIN posts THEN 404
    ELSE LET post == posts[post_id] IN
         IF user = post.author THEN 200
         ELSE IF post.pub_date > now THEN 404
         ELSE IF ~post.is_published THEN 404
         ELSE IF post.category = Null THEN 500
         ELSE IF ~categories[post.category].is_published THEN 404
         ELSE 200

\* --------------------------------------------- admin site (blog/admin.py)
\* CategoryAdmin: add a category; the slug is unique.
AdminCreateCategory(slug, pub) ==
    /\ nextId.category <= MaxCategories
    /\ \A c \in DOMAIN categories : categories[c].slug # slug
    /\ categories' = categories @@
          (nextId.category :> [slug |-> slug, is_published |-> pub])
    /\ nextId' = [nextId EXCEPT !.category = @ + 1]
    /\ UNCHANGED <<users, locations, posts, comments, now>>

\* CategoryAdmin.list_editable: is_published
AdminSetCategoryPublished(c, pub) ==
    /\ c \in DOMAIN categories
    /\ categories[c].is_published # pub
    /\ categories' = [categories EXCEPT ![c].is_published = pub]
    /\ UNCHANGED <<users, locations, posts, comments, nextId, now>>

\* slip: on_delete=DO_NOTHING
category_do_nothing(c) == posts

\* Post.category: on_delete=SET_NULL
category_on_delete(c) ==
    [id \in DOMAIN posts |->
        IF posts[id].category = c
        THEN [posts[id] EXCEPT !.category = Null]
        ELSE posts[id]]

AdminDeleteCategory(c) ==
    /\ c \in DOMAIN categories
    /\ categories' = Drop(categories, c)
    /\ posts' = category_on_delete(c)
    /\ UNCHANGED <<users, locations, comments, nextId, now>>

\* LocationAdmin: add a location
AdminCreateLocation ==
    /\ nextId.location <= MaxLocations
    /\ locations' = locations \cup {nextId.location}
    /\ nextId' = [nextId EXCEPT !.location = @ + 1]
    /\ UNCHANGED <<users, categories, posts, comments, now>>

\* Post.location: on_delete=SET_NULL
location_on_delete(l) ==
    [id \in DOMAIN posts |->
        IF posts[id].location = l
        THEN [posts[id] EXCEPT !.location = Null]
        ELSE posts[id]]

AdminDeleteLocation(l) ==
    /\ l \in locations
    /\ locations' = locations \ {l}
    /\ posts' = location_on_delete(l)
    /\ UNCHANGED <<users, categories, comments, nextId, now>>

\* PostAdmin.list_editable: is_published
AdminSetPostPublished(id, pub) ==
    /\ id \in DOMAIN posts
    /\ posts[id].is_published # pub
    /\ posts' = [posts EXCEPT ![id].is_published = pub]
    /\ UNCHANGED <<users, categories, locations, comments, nextId, now>>

\* Post.author: on_delete=CASCADE
author_on_delete(u) == {id \in DOMAIN posts : posts[id].author = u}

\* Comment.post and Comment.author: on_delete=CASCADE
post_on_delete(ids) == {c \in DOMAIN comments : comments[c].post \in ids}
comment_author_on_delete(u) == {c \in DOMAIN comments : comments[c].author = u}

\* Deleting an account collects its posts and comments and theirs.
AdminDeleteUser(u) ==
    /\ u \in users
    /\ users' = users \ {u}
    /\ posts' = [id \in DOMAIN posts \ author_on_delete(u) |-> posts[id]]
    /\ comments' = [c \in DOMAIN comments \
                        (post_on_delete(author_on_delete(u))
                            \cup comment_author_on_delete(u)) |-> comments[c]]
    /\ UNCHANGED <<categories, locations, nextId, now>>

\* The clock moves on.
Tick ==
    /\ now < MaxTime
    /\ now' = now + 1
    /\ UNCHANGED db

\* ------------------------------------------ site requests (blog/views.py)
\* A request carries valid form data: PostForm's pub_date, category
\* (required: the field is not blank=True) and location (optional);
\* CommentForm's text.  is_published is no form field: it takes the
\* model's default, True.

\* PostCreateView: LoginRequiredMixin, then form_valid sets
\* form.instance.author = request.user and saves.
PostCreateResponse(user) ==
    IF user = Anonymous THEN RedirectToLogin ELSE redirect("profile", user)

PostCreateView(user, pub_date, category, location) ==
    /\ nextId.post <= MaxPosts
    /\ category \in DOMAIN categories
    /\ location \in locations \cup {Null}
    /\ IF user = Anonymous
       THEN UNCHANGED db
       ELSE /\ posts' = posts @@
                 (nextId.post :> [author |-> user,
                                  pub_date |-> pub_date,
                                  is_published |-> TRUE,
                                  category |-> category,
                                  location |-> location])
            /\ nextId' = [nextId EXCEPT !.post = @ + 1]
            /\ UNCHANGED <<users, categories, locations, comments>>
    /\ UNCHANGED now

\* PostUpdateView: OnlyAuthorMixin (get_object is a 404 for a missing row),
\* then the form's fields are saved.
PostUpdateResponse(user, post_id) ==
    IF post_id \notin DOMAIN posts THEN Http404
    ELSE IF ~test_func(posts[post_id], user) THEN handle_no_permission(post_id)
    ELSE redirect("post_detail", post_id)

\* slip: the form exposes the author field (fields = '__all__') and the
\* request names another account
PostUpdateView_author_field(user, post_id, pub_date, category, location) ==
    /\ category \in DOMAIN categories
    /\ location \in locations \cup {Null}
    /\ IF post_id \notin DOMAIN posts
       THEN UNCHANGED db
       ELSE IF ~test_func(posts[post_id], user)
       THEN UNCHANGED db
       ELSE /\ \E a \in users :
                 posts' = [posts EXCEPT ![post_id].pub_date = pub_date,
                                        ![post_id].category = category,
                                        ![post_id].location = location,
                                        ![post_id].author = a]
            /\ UNCHANGED <<users, categories, locations, comments, nextId>>
    /\ UNCHANGED now

PostUpdateView(user, post_id, pub_date, category, location) ==
    /\ category \in DOMAIN categories
    /\ location \in locations \cup {Null}
    /\ IF post_id \notin DOMAIN posts
       THEN UNCHANGED db
       ELSE IF ~test_func(posts[post_id], user)
       THEN UNCHANGED db
       ELSE /\ posts' = [posts EXCEPT ![post_id].pub_date = pub_date,
                                      ![post_id].category = category,
                                      ![post_id].location = location]
            /\ UNCHANGED <<users, categories, locations, comments, nextId>>
    /\ UNCHANGED now

\* PostDeleteView: OnlyAuthorMixin, then the row is deleted together with
\* the comments on it.
PostDeleteResponse(user, post_id) ==
    IF post_id \notin DOMAIN posts THEN Http404
    ELSE IF ~test_func(posts[post_id], user) THEN handle_no_permission(post_id)
    ELSE redirect("profile", user)

PostDeleteView(user, post_id) ==
    /\ IF post_id \notin DOMAIN posts
       THEN UNCHANGED db
       ELSE IF ~test_func(posts[post_id], user)
       THEN UNCHANGED db
       ELSE /\ posts' = Drop(posts, post_id)
            /\ comments' = [c \in DOMAIN comments \ post_on_delete({post_id})
                                |-> comments[c]]
            /\ UNCHANGED <<users, categories, locations, nextId>>
    /\ UNCHANGED now

\* CommentCreateView.get_post_object: get_object_or_404(Post, pk=post_id)
get_post_object(post_id) == DOMAIN posts \cap {post_id}

\* CommentCreateView: LoginRequiredMixin, then form_valid sets author and
\* post and saves.
CommentCreateResponse(user, post_id) ==
    IF user = Anonymous THEN RedirectToLogin
    ELSE IF get_post_object(post_id) = {} THEN Http404
    ELSE redirect("post_detail", post_id)

\* slip: no LoginRequiredMixin
CommentCreateView_no_login(user, post_id, text) ==
    /\ nextId.comment <= MaxComments
    /\ IF get_post_object(post_id) = {}
       THEN UNCHANGED db
       ELSE /\ comments' = comments @@
                 (nextId.comment :> [author |-> user,
                                     post |-> post_id,
                                     text |-> text])
            /\ nextId' = [nextId EXCEPT !.comment = @ + 1]
            /\ UNCHANGED <<users, categories, locations, posts>>
    /\ UNCHANGED now

CommentCreateView(user, post_id, text) ==
    /\ nextId.comment <= MaxComments
    /\ IF user = Anonymous
       THEN UNCHANGED db
       ELSE IF get_post_object(post_id) = {}
       THEN UNCHANGED db
       ELSE /\ comments' = comments @@
                 (nextId.comment :> [author |-> user,
                                     post |-> post_id,
                                     text |-> text])
            /\ nextId' = [nextId EXCEPT !.comment = @ + 1]
            /\ UNCHANGED <<users, categories, locations, posts>>
    /\ UNCHANGED now

\* CommentUpdateView: the row is looked up by comment_id alone
\* (CommentMixin.pk_url_kwarg); the post_id of the URL is never read, so it
\* is no parameter here.
CommentUpdateResponse(user, comment_id) ==
    IF comment_id \notin DOMAIN comments THEN Http404
    ELSE IF ~test_func(comments[comment_id], user)
    THEN handle_no_permission(comment_id)
    ELSE redirect("post_detail", comments[comment_id].post)

CommentUpdateView(user, comment_id, text) ==
    /\ IF comment_id \notin DOMAIN comments
       THEN UNCHANGED db
       ELSE IF ~test_func(comments[comment_id], user)
       THEN UNCHANGED db
       ELSE /\ comments' = [comments EXCEPT ![comment_id].text = text]
            /\ UNCHANGED <<users, categories, locations, posts, nextId>>
    /\ UNCHANGED now

\* CommentDeleteView
CommentDeleteResponse(user, comment_id) ==
    IF comment_id \notin DOMAIN comments THEN Http404
    ELSE IF ~test_func(comments[comment_id], user)
    THEN handle_no_permission(comment_id)
    ELSE redirect("post_detail", comments[comment_id].post)

CommentDeleteView(user, comment_id) ==
    /\ IF comment_id \notin DOMAIN comments
       THEN UNCHANGED db
       ELSE IF ~test_func(comments[comment_id], user)
       THEN UNCHANGED db
       ELSE /\ comments' = Drop(comments, comment_id)
            /\ UNCHANGED <<users, categories, locations, posts, nextId>>
    /\ UNCHANGED now

\* ------------------------------------------------------- specifications
PostCreate ==
    \E u \in Requesters, t \in Times, c \in CategoryIds,
       l \in LocationIds \cup {Null} : PostCreateView(u, t, c, l)
PostUpdate ==
    \E u \in Requesters, id \in PostIds, t \in Times, c \in CategoryIds,
       l \in LocationIds \cup {Null} : PostUpdateView(u, id, t, c, l)
PostDelete ==
    \E u \in Requesters, id \in PostIds : PostDeleteView(u, id)
CommentCreate ==
    \E u \in Requesters, id \in PostIds, x \in Texts :
       CommentCreateView(u, id, x)
CommentUpdate ==
    \E u \in Requesters, c \in CommentIds, x \in Texts :
       CommentUpdateView(u, c, x)
CommentDelete ==
    \E u \in Requesters, c \in CommentIds : CommentDeleteView(u, c)
CreateCategory ==
    \E s \in Slugs, b \in BOOLEAN : AdminCreateCategory(s, b)
SetCategoryPublished ==
    \E c \in CategoryIds, b \in BOOLEAN : AdminSetCategoryPublished(c, b)
DeleteCategory == \E c \in CategoryIds : AdminDeleteCategory(c)
DeleteLocation == \E l \in LocationIds : AdminDeleteLocation(l)
SetPostPublished ==
    \E id \in PostIds, b \in BOOLEAN : AdminSetPostPublished(id, b)
DeleteUser == \E u \in Users : AdminDeleteUser(u)

Next ==
    \/ PostCreate \/ PostUpdate \/ PostDelete
    \/ CommentCreate \/ CommentUpdate \/ CommentDelete
    \/ CreateCategory \/ SetCategoryPublished \/ DeleteCategory
    \/ AdminCreateLocation \/ DeleteLocation
    \/ SetPostPublished \/ DeleteUser
    \/ Tick

Spec == Init /\ [][Next]_vars

\* The slices of Next: each is the system with the tables a family of
\* properties does not read left as they start.
\* Visibility: accounts, posts, categories and the clock.
NextVisibility ==
    \/ PostCreate \/ PostUpdate \/ PostDelete
    \/ CreateCategory \/ SetCategoryPublished \/ DeleteCategory
    \/ SetPostPublished \/ DeleteUser
    \/ Tick

SpecVisibility == Init /\ [][NextVisibility]_vars

\* Ownership: the site's post and comment requests and nothing else, on a
\* site whose administrator has added the first category (a post needs one).
InitSite ==
    /\ users = Users
    /\ categories = (1 :> [slug |-> "s1", is_published |-> TRUE])
    /\ locations = {}
    /\ posts = <<>>
    /\ comments = <<>>
    /\ nextId = [post |-> 1, comment |-> 1, category |-> 2, location |-> 1]
    /\ now = 0

NextOwnership ==
    \/ PostCreate \/ PostUpdate \/ PostDelete
    \/ CommentCreate \/ CommentUpdate \/ CommentDelete

SpecOwnership == InitSite /\ [][NextOwnership]_vars

\* Integrity: creation and deletion of the rows of every table.  The fields
\* that are no reference take one value each: a post is dated now, a
\* comment says "a", a category is published.
PostCreateNow ==
    \E u \in Requesters, c \in CategoryIds, l \in LocationIds \cup {Null} :
       PostCreateView(u, now, c, l)
CommentCreateA ==
    \E u \in Requesters, id \in PostIds : CommentCreateView(u, id, "a")
CreatePublishedCategory == \E s \in Slugs : AdminCreateCategory(s, TRUE)

NextIntegrity ==
    \/ PostCreateNow \/ PostDelete
    \/ CommentCreateA \/ CommentDelete
    \/ CreatePublishedCategory \/ DeleteCategory
    \/ AdminCreateLocation \/ DeleteLocation
    \/ DeleteUser

SpecIntegrity == Init /\ [][NextIntegrity]_vars

\* ------------------------------------------------------------ properties
\* The three visibility conditions, read off the stored rows.
PubliclyVisible(id) ==
    /\ posts[id].pub_date <= now
    /\ posts[id].is_published
    /\ posts[id].category # Null
    /\ categories[posts[id].category].is_published

AuthoredBy(u) == {id \in DOMAIN posts : posts[id].author = u}

\* C1: the home listing holds a post iff its pub_date is not later than
\* now, it is published and its category is published; so a post dated in
\* the future is absent while pub_date > now and present once now has
\* reached pub_date.
C1_HomeListsExactlyVisible ==
    /\ HomePageListView \subseteq DOMAIN posts
    /\ \A id \in DOMAIN posts : id \in HomePageListView <=> PubliclyVisible(id)

\* The clock has moved on to the pub_date of a listed post.
C1_Witness ==
    \E id \in DOMAIN posts :
        /\ now > 0
        /\ posts[id].pub_date = now
        /\ id \in HomePageListView

\* C2: for a requester who is not the author a post that is not publicly
\* visible (a NULL category included) is a 404 and nothing else; the
\* author always gets the page.
C2_DetailHidesInvisible ==
    \A id \in DOMAIN posts : \A r \in Requesters :
        /\ (r # posts[id].author /\ ~PubliclyVisible(id))
              => PostDetailView(r, id) = 404
        /\ r = posts[id].author => PostDetailView(r, id) = 200

\* C5: the profile of U lists all of U's posts to U, U's publicly visible
\* posts to anybody else, and never a post of another author.
C5_ProfileListing ==
    \A u \in users : \A r \in Requesters :
        /\ UserListView(r, u).status = 200
        /\ UserListView(r, u).object_list =
              IF r = u
              THEN AuthoredBy(u)
              ELSE {id \in AuthoredBy(u) : PubliclyVisible(id)}

\* An account owns a post that is not publicly visible: its own profile
\* shows it, the profile as others see it does not.
C5_Witness ==
    \E u \in users : \E id \in AuthoredBy(u) :
        /\ ~PubliclyVisible(id)
        /\ id \in UserListView(u, u).object_list
        /\ \E r \in Requesters : r # u /\ id \notin UserListView(r, u).object_list

\* C8: a category listing is a 404 when no category has the slug or the
\* one that has it is unpublished; otherwise it lists exactly the publicly
\* visible posts of that category.
C8_CategoryListing ==
    \A s \in Slugs :
        LET match == {c \in DOMAIN categories : categories[c].slug = s} IN
        IF match = {} \/ \E c \in match : ~categories[c].is_published
        THEN CategoryPostsListView(s).status = 404
        ELSE /\ CategoryPostsListView(s).status = 200
             /\ CategoryPostsListView(s).object_list =
                   {id \in DOMAIN posts :
                       PubliclyVisible(id) /\ posts[id].category \in match}

\* An unpublished category holds a published post of the past: its listing
\* is a 404 all the same.
C8_Witness ==
    \E s \in Slugs : \E id \in DOMAIN posts :
        /\ posts[id].category # Null
        /\ categories[posts[id].category].slug = s
        /\ ~categories[posts[id].category].is_published
        /\ posts[id].is_published
        /\ posts[id].pub_date <= now
        /\ CategoryPostsListView(s).status = 404

\* The requesters other than the author of a row.
Others(row) == {r \in Requesters : r # row.author}

\* C3: an edit or delete request for a post or a comment by anybody but
\* its author (another account or the anonymous visitor) is answered with
\* a redirect and cannot change any row; only the author's request writes.
C3_OnlyAuthorWrites ==
    /\ \A id \in DOMAIN posts : \A r \in Others(posts[id]) :
          /\ PostUpdateResponse(r, id).status = 302
          /\ PostDeleteResponse(r, id).status = 302
          /\ ~ENABLED (PostDeleteView(r, id) /\ db' # db)
          /\ \A t \in Times, c \in CategoryIds, l \in LocationIds \cup {Null} :
                ~ENABLED (PostUpdateView(r, id, t, c, l) /\ db' # db)
    /\ \A c \in DOMAIN comments : \A r \in Others(comments[c]) :
          /\ CommentUpdateResponse(r, c).status = 302
          /\ CommentDeleteResponse(r, c).status = 302
          /\ ~ENABLED (CommentDeleteView(r, c) /\ db' # db)
          /\ \A x \in Texts :
                ~ENABLED (CommentUpdateView(r, c, x) /\ db' # db)

\* A post of one account carries a comment of the other: each is refused
\* the other's row, and the author's own edit of the comment would write.
C3_Witness ==
    \E id \in DOMAIN posts : \E c \in DOMAIN comments :
        /\ comments[c].post = id
        /\ comments[c].author \in Others(posts[id])
        /\ posts[id].author \in Others(comments[c])
        /\ \E x \in Texts :
              ENABLED (CommentUpdateView(comments[c].author, c, x) /\ db' # db)

\* C4: a comment created by CommentCreateView is stored under the next id
\* with the requester as author and the post of the URL as post, and no
\* other row changes; an anonymous request, or one for a post id that does
\* not exist, creates nothing.
C4_CommentCreate ==
    [][\A u \in Requesters, id \in PostIds, x \in Texts :
          CommentCreateView(u, id, x) =>
             IF u = Anonymous \/ id \notin DOMAIN posts
             THEN comments' = comments
             ELSE /\ DOMAIN comments' = DOMAIN comments \cup {nextId.comment}
                  /\ nextId.comment \notin DOMAIN comments
                  /\ comments'[nextId.comment].author = u
                  /\ comments'[nextId.comment].post = id
                  /\ \A c \in DOMAIN comments : comments'[c] = comments[c]]_vars

\* Two comments by different accounts are stored on a post, one by an
\* account that is not the post's author.
C4_Witness ==
    \E c1 \in DOMAIN comments : \E c2 \in DOMAIN comments :
        /\ comments[c1].author # comments[c2].author
        /\ comments[c1].post \in DOMAIN posts
        /\ comments[c1].author # posts[comments[c1].post].author

\* C6: a comment-creation request by somebody who is not the post's author
\* adds no comment while the post is not publicly visible.
C6_NoCommentOnInvisible ==
    [][\A u \in Requesters, id \in DOMAIN posts, x \in Texts :
          (CommentCreateView(u, id, x)
             /\ u # posts[id].author /\ ~PubliclyVisible(id))
          => comments' = comments]_vars

\* C9: the redirect that refuses a non-author leads to the detail page of
\* the post concerned: the post itself, or the post a comment belongs to.
C9_RefusalLeadsToThePost ==
    /\ \A id \in DOMAIN posts : \A r \in Others(posts[id]) :
          /\ PostUpdateResponse(r, id) = redirect("post_detail", id)
          /\ PostDeleteResponse(r, id) = redirect("post_detail", id)
    /\ \A c \in DOMAIN comments : \A r \in Others(comments[c]) :
          /\ CommentUpdateResponse(r, c) = redirect("post_detail", comments[c].post)
          /\ CommentDeleteResponse(r, c) = redirect("post_detail", comments[c].post)

\* C10: PostCreateView stores the requester as author (an anonymous request
\* stores nothing), ids are never handed out twice, and no post or comment
\* request changes the author of a stored post or comment.
C10_AuthorFixed ==
    [][/\ \A id \in DOMAIN posts \cap DOMAIN posts' :
             posts'[id].author = posts[id].author
       /\ \A c \in DOMAIN comments \cap DOMAIN comments' :
             comments'[c].author = comments[c].author
       /\ DOMAIN posts' \ DOMAIN posts \subseteq {nextId.post}
       /\ DOMAIN comments' \ DOMAIN comments \subseteq {nextId.comment}
       /\ \A id \in DOMAIN posts' : id < nextId'.post
       /\ \A c \in DOMAIN comments' : c < nextId'.comment
       /\ \A u \in Requesters, t \in Times, c \in CategoryIds,
             l \in LocationIds \cup {Null} :
             PostCreateView(u, t, c, l) =>
                IF u = Anonymous
                THEN posts' = posts
                ELSE /\ nextId.post \notin DOMAIN posts
                     /\ posts'[nextId.post].author = u]_vars

\* A post and a comment on it have both been edited by their authors after
\* creation: the post is re-dated and the comment re-worded, and a second
\* account exists that could have asked.
C10_Witness ==
    \E id \in DOMAIN posts : \E c \in DOMAIN comments :
        /\ comments[c].post = id
        /\ posts[id].pub_date # 0
        /\ comments[c].text = "b"
        /\ comments[c].author # posts[id].author

\* Every reference of every stored row resolves.
ReferentialIntegrity ==
    /\ \A id \in DOMAIN posts :
          /\ posts[id].author \in users
          /\ posts[id].category \in DOMAIN categories \cup {Null}
          /\ posts[id].location \in locations \cup {Null}
    /\ \A c \in DOMAIN comments : comments[c].post \in DOMAIN posts

\* C7: every stored post has an existing author and a category and a
\* location that are NULL or existing rows, and every stored comment has an
\* existing post; deleting a category or a location leaves every post in
\* place and only clears the reference, deleting an account leaves none of
\* its posts, deleting a post leaves none of its comments.
C7_ReferentialIntegrity ==
    [][/\ ReferentialIntegrity'
       /\ \A c \in CategoryIds : AdminDeleteCategory(c) =>
             /\ DOMAIN posts' = DOMAIN posts
             /\ \A id \in DOMAIN posts :
                   posts'[id] = IF posts[id].category = c
                                THEN [posts[id] EXCEPT !.category = Null]
                                ELSE posts[id]
       /\ \A l \in LocationIds : AdminDeleteLocation(l) =>
             /\ DOMAIN posts' = DOMAIN posts
             /\ \A id \in DOMAIN posts :
                   posts'[id] = IF posts[id].location = l
                                THEN [posts[id] EXCEPT !.location = Null]
                                ELSE posts[id]
       /\ \A u \in Users : AdminDeleteUser(u) =>
             DOMAIN posts' = {id \in DOMAIN posts : posts[id].author # u}
       /\ \A u \in Requesters, id \in DOMAIN posts :
             (PostDeleteView(u, id) /\ id \notin DOMAIN posts') =>
                DOMAIN comments' =
                   {c \in DOMAIN comments : comments[c].post # id}]_vars

\* After deletions: a post has lost its category and its location to NULL,
\* and an account is gone while the other's post and comment remain.
C7_Witness ==
    /\ users # Users
    /\ \E id \in DOMAIN posts :
          /\ posts[id].category = Null
          /\ posts[id].location = Null
          /\ nextId.location > 1
          /\ \E c \in DOMAIN comments : comments[c].post = id

====
